---------------------------- MODULE Spec2Model ----------------------------
(***************************************************************************)
(* vite-plugin-lucky (src/src/index.ts): the plugin factory, its two hooks *)
(* (config, buildStart) and the helpers they call, as a state machine.     *)
(*                                                                         *)
(* Strings are TLA+ strings; JSON values are tagged pairs <<typeof, v>>.   *)
(***************************************************************************)
EXTENDS Integers, Sequences, FiniteSets, TLC

VARIABLES
  file,      \* the file at configPath: [exists, wellFormed, doc]
  fs,        \* the filesystem below the process root: path -> "absent", "dir" or a file content
  order,     \* the order in which the platform lists directory entries
  locked,    \* paths rmSync cannot remove (EACCES / EPERM)
  plugin,    \* "unloaded", "failed" (the factory threw) or "ready" (the hooks were returned)
  config,    \* the `config` constant the hooks close over (index.ts:11)
  last,      \* the last operation: [op, ok, error, result]
  returned,  \* per directory listing, what the config hook returned first, and whether it
             \* was invoked again with that listing
  root,      \* the `root` constant the hooks close over (index.ts:12)
  env,       \* process.env['LUCKY_ENV'] when the module was loaded
  edits,     \* number of changes made to the config file and the entry directory
  input,     \* argument of the helper under check (helper specifications)
  output,    \* what the helper returned
  pc         \* "call" before the helper ran, "done" after

vars ==
  <<file, fs, order, locked, plugin, config, root, env, last, returned, edits, input, output, pc>>

lifecycleVars == <<file, fs, order, locked, plugin, config, root, env, last, returned, edits>>

helperVars == <<input, output, pc>>

-----------------------------------------------------------------------------
(* Text *)

Char(s, i) == SubSeq(s, i, i)

EndsWith(s, suf) ==
  /\ Len(s) >= Len(suf)
  /\ SubSeq(s, Len(s) - Len(suf) + 1, Len(s)) = suf

StartsWith(s, pre) ==
  /\ Len(s) >= Len(pre)
  /\ SubSeq(s, 1, Len(pre)) = pre

\* an unanchored search, as RegExp.prototype.test does for a literal pattern
Includes(s, sub) ==
  \E i \in 1..(Len(s) - Len(sub) + 1) : SubSeq(s, i, i + Len(sub) - 1) = sub

\* position of the first occurrence of the one-character string c in s at or after i,
\* 0 if none
RECURSIVE IndexFrom(_, _, _)
IndexFrom(s, c, i) ==
  IF i > Len(s) THEN 0 ELSE IF Char(s, i) = c THEN i ELSE IndexFrom(s, c, i + 1)

IndexOf(s, c) == IndexFrom(s, c, 1)

Digits == <<"0", "1", "2", "3", "4", "5", "6", "7", "8", "9">>

IsDigit(c) == \E d \in 1..10 : Digits[d] = c

DigitValue(c) == (CHOOSE d \in 1..10 : Digits[d] = c) - 1

\* Number.prototype.toString for a non-negative integer (template literal `${port}`)
RECURSIVE NumberToString(_)
NumberToString(n) ==
  IF n < 10 THEN Digits[n + 1] ELSE NumberToString(n \div 10) \o Digits[(n % 10) + 1]

\* value of a string of decimal digits
RECURSIVE DigitsToNumber(_)
DigitsToNumber(s) ==
  IF Len(s) = 0 THEN 0
  ELSE DigitsToNumber(SubSeq(s, 1, Len(s) - 1)) * 10 + DigitValue(Char(s, Len(s)))

Upper == "ABCDEFGHIJKLMNOPQRSTUVWXYZ"

Lower == "abcdefghijklmnopqrstuvwxyz"

\* the characters of s, as a set
CharSet(s) == {Char(s, i) : i \in 1..Len(s)}

UpperChars == CharSet(Upper)

LowerOf == [c \in UpperChars |-> Char(Lower, IndexOf(Upper, c))]

LowerChar(c) == IF c \in UpperChars THEN LowerOf[c] ELSE c

RECURSIVE ToLowerCase(_)
ToLowerCase(s) ==
  IF Len(s) = 0 THEN "" ELSE LowerChar(Char(s, 1)) \o ToLowerCase(Tail(s))

-----------------------------------------------------------------------------
(* JSON values, as typeof sees them *)

JStr(s) == <<"string", s>>
JNum(n) == <<"number", n>>
JBool(b) == <<"boolean", b>>
JArr(a) == <<"object", a>>

typeof(v) == v[1]
valueOf(v) == v[2]


Absent == <<"undefined">>

\* a parsed JSON document or config object: a function from its keys to their values
Get(obj, k) == IF k \in DOMAIN obj THEN obj[k] ELSE Absent

\* JavaScript truthiness of a value
Truthy(v) ==
  CASE typeof(v) = "undefined" -> FALSE
    [] typeof(v) = "boolean" -> valueOf(v)
    [] typeof(v) = "string" -> valueOf(v) # ""
    [] typeof(v) = "number" -> valueOf(v) # 0
    [] OTHER -> TRUE

\* what a template literal `${v}` appends
TemplateString(v) ==
  CASE typeof(v) = "undefined" -> "undefined"
    [] typeof(v) = "boolean" -> (IF valueOf(v) THEN "true" ELSE "false")
    [] typeof(v) = "number" -> NumberToString(valueOf(v))
    [] OTHER -> valueOf(v)

-----------------------------------------------------------------------------
(* Paths (node's path.join and path.resolve on POSIX) *)

\* the segments of a path: split on "/", empty segments dropped
RECURSIVE Split(_)
Split(p) ==
  IF Len(p) = 0 THEN <<>>
  ELSE LET i == IndexOf(p, "/") IN
       IF i = 0 THEN <<p>>
       ELSE IF i = 1 THEN Split(Tail(p))
       ELSE <<SubSeq(p, 1, i - 1)>> \o Split(SubSeq(p, i + 1, Len(p)))

\* "." dropped, ".." removes the segment before it (and is dropped at the root)
RECURSIVE NormalizeSegments(_, _)
NormalizeSegments(done, todo) ==
  IF todo = <<>> THEN done
  ELSE IF Head(todo) = "." THEN NormalizeSegments(done, Tail(todo))
  ELSE IF Head(todo) = ".." THEN
         NormalizeSegments(IF done = <<>> THEN done ELSE SubSeq(done, 1, Len(done) - 1),
                           Tail(todo))
  ELSE NormalizeSegments(Append(done, Head(todo)), Tail(todo))

RECURSIVE Unsplit(_)
Unsplit(segs) == IF segs = <<>> THEN "" ELSE "/" \o Head(segs) \o Unsplit(Tail(segs))

\* an absolute path from its segments
AbsolutePath(segs) ==
  LET n == NormalizeSegments(<<>>, segs) IN IF n = <<>> THEN "/" ELSE Unsplit(n)

\* path.join(base, ...parts), base absolute: concatenate, then normalize
RECURSIVE JoinSegments(_)
JoinSegments(parts) ==
  IF parts = <<>> THEN <<>> ELSE Split(Head(parts)) \o JoinSegments(Tail(parts))

join(base, parts) == AbsolutePath(Split(base) \o JoinSegments(parts))

\* path.resolve(base, p), base absolute: an absolute p replaces base
resolve(base, p) ==
  IF StartsWith(p, "/") THEN AbsolutePath(Split(p)) ELSE AbsolutePath(Split(base) \o Split(p))

\* process.cwd()
LUCKY_ROOT == "/app"

-----------------------------------------------------------------------------
(* Filesystem *)

OutputTree ==
  { "/app/public/js", "/app/public/js/main.1a2b.js",
    "/app/public/css", "/app/public/css/main.3c4d.css",
    "/app/public/images", "/app/public/fonts",
    "/app/public/.vite", "/app/public/.vite/manifest.json" }

Paths ==
  { "/app", "/app/public", "/app/public/favicon.ico", "/app/public/assets",
    "/app/src", "/app/src/js", "/app/src/css", "/app/src/js/entry",
    "/app/src/js/entry/main.js", "/app/src/js/entry/admin.ts" } \cup OutputTree

\* q is p or lies below p
IsUnder(p, q) == q = p \/ StartsWith(q, p \o "/")

Parent(p) == AbsolutePath(Split(p) \o <<"..">>)

Basename(p) == LET s == Split(p) IN IF s = <<>> THEN "" ELSE s[Len(s)]

existsSync(f, p) == p \in Paths /\ f[p] # "absent"

\* rmSync(p, {recursive: true, force: true}): throws when it may not remove something
rmSyncThrows(f, lk, p) == \E q \in Paths : IsUnder(p, q) /\ f[q] # "absent" /\ q \in lk

rmSync(f, p) == [q \in Paths |-> IF IsUnder(p, q) THEN "absent" ELSE f[q]]

\* readdirSync(dir): the names of dir's entries in the platform's order; ENOENT /
\* ENOTDIR when dir is no directory
readdirThrows(f, dir) == ~(dir \in Paths /\ f[dir] = "dir")

readdirSync(f, ord, dir) == SelectSeq(ord, LAMBDA n : existsSync(f, dir \o "/" \o n))

-----------------------------------------------------------------------------
(* loadConfig *)

EmptyObject == [k \in {} |-> Absent]

Threw(err) == [ok |-> FALSE, error |-> err, value |-> EmptyObject]

Returned(v) == [ok |-> TRUE, error |-> "", value |-> v]

\* readFileSync(configPath, ...) followed by JSON.parse
readFileSyncThrows(f) == ~f.exists

JSONparseThrows(f) == ~f.wellFormed

defaults ==
  [ outDir |-> JStr("public"),
    entry |-> JStr("entry"),
    host |-> JStr("127.0.0.1"),
    port |-> JNum(3010),
    root |-> JStr("src/js"),
    aliases |-> JArr(<<"js", "css", "images", "fonts">>) ]

\* an assignment that keeps the target's value of a key both objects have
ObjectAssignTargetWins(target, source) ==
  [k \in DOMAIN target \cup DOMAIN source |->
     IF k \in DOMAIN target THEN target[k] ELSE source[k]]

\* Object.assign(target, source): every own key of source is set on target
ObjectAssign(target, source) ==
  [k \in DOMAIN target \cup DOMAIN source |->
     IF k \in DOMAIN source THEN source[k] ELSE target[k]]

loadConfigOrDefaults(f) ==
  IF readFileSyncThrows(f) \/ JSONparseThrows(f) THEN Returned(defaults)
  ELSE Returned(ObjectAssign(defaults, f.doc))

loadConfig(f) ==
  IF readFileSyncThrows(f) THEN Threw("ENOENT")
  ELSE IF JSONparseThrows(f) THEN Threw("SyntaxError")
  ELSE Returned(ObjectAssign(defaults, f.doc))

-----------------------------------------------------------------------------
(* resolveAliases *)

\* dirs.map(alias => ({find: `@${alias}`, replacement: resolve(LUCKY_ROOT, `src/${alias}`)}))
resolveAliases(dirs) ==
  LET list == IF typeof(dirs) = "undefined" THEN <<>> ELSE valueOf(dirs) IN
  [i \in 1..Len(list) |->
     [find |-> "@" \o list[i], replacement |-> resolve(LUCKY_ROOT, "src/" \o list[i])]]

-----------------------------------------------------------------------------
(* new URL(origin), for absolute URLs without credentials or IPv6 literals *)

SchemeStartChars == CharSet(Upper \o Lower)

SchemeChars == CharSet(Upper \o Lower \o "0123456789+-.")

ForbiddenHostChars == CharSet(" #/<>?@[\\]^|%")

IsSpecial(scheme) == scheme \in {"http", "https", "ws", "wss", "ftp"}

DefaultPort(scheme) ==
  CASE scheme \in {"http", "ws"} -> "80"
    [] scheme \in {"https", "wss"} -> "443"
    [] scheme = "ftp" -> "21"
    [] OTHER -> ""

\* s without its leading "/" and "\" characters
RECURSIVE SkipSlashes(_)
SkipSlashes(s) ==
  IF Len(s) > 0 /\ Char(s, 1) \in {"/", "\\"} THEN SkipSlashes(Tail(s)) ELSE s

\* s up to the first of the characters in the set stops
RECURSIVE UpTo(_, _)
UpTo(s, stops) ==
  IF Len(s) = 0 \/ Char(s, 1) \in stops THEN "" ELSE Char(s, 1) \o UpTo(Tail(s), stops)

AuthorityEnd == CharSet("/\\?#")

InvalidURL == [ok |-> FALSE, protocol |-> "", hostname |-> "", port |-> ""]

URL(s) ==
  LET colon == IndexOf(s, ":")
      scheme == ToLowerCase(SubSeq(s, 1, colon - 1))
      rest == SubSeq(s, colon + 1, Len(s))
  IN
  IF \/ colon <= 1
     \/ Char(s, 1) \notin SchemeStartChars
     \/ \E i \in 1..(colon - 1) : Char(s, i) \notin SchemeChars
  THEN InvalidURL
  ELSE IF ~IsSpecial(scheme) /\ ~StartsWith(rest, "//")
  THEN [ok |-> TRUE, protocol |-> scheme \o ":", hostname |-> "", port |-> ""]
  ELSE
    LET authority == UpTo(IF IsSpecial(scheme) THEN SkipSlashes(rest)
                          ELSE SubSeq(rest, 3, Len(rest)),
                          AuthorityEnd)
        host == UpTo(authority, {":"})
        hasPort == Len(host) < Len(authority)
        portText == IF hasPort THEN SubSeq(authority, Len(host) + 2, Len(authority)) ELSE ""
        portNumber == NumberToString(DigitsToNumber(portText))
    IN
    IF \/ IsSpecial(scheme) /\ host = ""
       \/ \E i \in 1..Len(host) : Char(host, i) \in ForbiddenHostChars
       \/ \E i \in 1..Len(portText) : ~IsDigit(Char(portText, i))
       \/ (portText # "" /\ DigitsToNumber(portText) > 65535)
    THEN InvalidURL
    ELSE [ ok |-> TRUE,
           protocol |-> scheme \o ":",
           hostname |-> IF IsSpecial(scheme) THEN ToLowerCase(host) ELSE host,
           port |-> IF portText = "" \/ portNumber = DefaultPort(scheme)
                    THEN "" ELSE portNumber ]

-----------------------------------------------------------------------------
(* configureServer *)

NoServer == [origin |-> "", host |-> "", port |-> "", https |-> FALSE]

\* an assignment that ignores the supplied origin
OrAssignAlways(origin, synthesized) == synthesized

\* `origin ||= ...`: the supplied origin when it is truthy, else the synthesized one
OrAssign(origin, synthesized) ==
  IF Truthy(origin) THEN TemplateString(origin) ELSE synthesized

\* the origin handed to new URL and returned
ServerOrigin(cfg) ==
  LET https == IF typeof(Get(cfg, "https")) = "undefined" THEN JBool(FALSE)
               ELSE Get(cfg, "https")
      host == IF typeof(Get(cfg, "host")) = "boolean" THEN JStr("0.0.0.0")
              ELSE Get(cfg, "host")
  IN OrAssign(Get(cfg, "origin"),
              "http" \o (IF Truthy(https) THEN "s" ELSE "") \o "://"
                \o TemplateString(host) \o ":" \o TemplateString(Get(cfg, "port")))

configureServer(cfg) ==
  LET origin == ServerOrigin(cfg)
      uri == URL(origin)
  IN IF ~uri.ok THEN [ok |-> FALSE, error |-> "TypeError: Invalid URL", value |-> NoServer]
     ELSE [ ok |-> TRUE, error |-> "",
            value |-> [ origin |-> origin,
                        host |-> uri.hostname,
                        port |-> uri.port,
                        https |-> (uri.protocol = "https:") ] ]

\* the caller's config object after configureServer(config): the parameters are
\* destructured, so `origin ||=` and `host =` assign locals only
ConfigWithOriginWrittenBack(cfg) ==
  [k \in DOMAIN cfg \cup {"origin"} |-> IF k = "origin" THEN JStr(ServerOrigin(cfg)) ELSE cfg[k]]

ConfigAfterConfigureServer(cfg) == cfg

-----------------------------------------------------------------------------
(* findEntryScripts *)

findEntryScriptsThrows(f, entryRoot) == readdirThrows(f, resolve(LUCKY_ROOT, entryRoot))

MapResolveJoin(entryRoot, names) == [i \in 1..Len(names) |-> resolve(LUCKY_ROOT, join(entryRoot, <<names[i]>>))]

\* a scan that keeps the *.js entries only
findEntryScriptsJsOnly(f, ord, entryRoot) ==
  MapResolveJoin(entryRoot,
                 SelectSeq(readdirSync(f, ord, resolve(LUCKY_ROOT, entryRoot)),
                           LAMBDA n : EndsWith(n, ".js")))

\* readdirSync(resolve(root)).map(entry => resolve(join(root, entry)))
findEntryScripts(f, ord, entryRoot) ==
  MapResolveJoin(entryRoot, readdirSync(f, ord, resolve(LUCKY_ROOT, entryRoot)))

-----------------------------------------------------------------------------
(* determineAssetFilePath / formatAssetFilePath *)

\* formatAssetFilePath(dir?, ext = '[extname]'); dir "" stands for an omitted dir
formatAssetFilePath(dir, ext) ==
  LET name == "[name].[hash]" \o ext IN IF dir # "" THEN dir \o "/" \o name ELSE name

\* the rule without the webp and avif extensions
IsImageNameOld(name) == \E e \in {"gif", "jpg", "jpeg", "png", "svg"} : EndsWith(name, "." \o e)

\* /\.(gif|jpe?g|png|webp|avif|svg)$/.test(name)
IsImageName(name) ==
  \E e \in {"gif", "jpg", "jpeg", "png", "webp", "avif", "svg"} : EndsWith(name, "." \o e)

\* /\.css$/.test(name)
IsCssName(name) == EndsWith(name, ".css")

\* /\.woff2?$/.test(name)
IsFontName(name) == EndsWith(name, ".woff") \/ EndsWith(name, ".woff2")

\* asset is [name |-> <JSON value>]; `{ name = '' }` defaults an undefined name
determineAssetFilePath(asset) ==
  LET name == IF typeof(asset.name) = "undefined" THEN "" ELSE valueOf(asset.name) IN
  IF IsImageName(name) THEN formatAssetFilePath("images", "[extname]")
  ELSE IF IsCssName(name) THEN formatAssetFilePath("css", "[extname]")
  ELSE IF IsFontName(name) THEN formatAssetFilePath("fonts", "[extname]")
  ELSE formatAssetFilePath("", "[extname]")

entryFileNames == formatAssetFilePath("js", ".js")

chunkFileNames == formatAssetFilePath("js", ".js")

-----------------------------------------------------------------------------
(* LUCKY_ENV and the source-map policy *)

\* process.env['LUCKY_ENV'] || 'development'; e is Absent or a string value
LUCKY_ENV(e) == IF Truthy(e) THEN valueOf(e) ELSE "development"

\* !/test|development/.test(LUCKY_ENV)
sourcemap(luckyEnv) == ~(Includes(luckyEnv, "test") \/ Includes(luckyEnv, "development"))

-----------------------------------------------------------------------------
(* The plugin: factory, config hook, buildStart hook *)

MaxEdits == 1

NoResult ==
  [ root |-> "", alias |-> <<>>, server |-> NoServer,
    build |-> [ outDir |-> "", sourcemap |-> FALSE, emptyOutDir |-> FALSE, manifest |-> FALSE,
                input |-> <<>>, entryFileNames |-> "", chunkFileNames |-> "",
                assetFileNames |-> "" ] ]

\* what an operation did; repeat: the operation before it was the same one, and completed
Outcome(op, ok, err, res, removed) ==
  [ op |-> op, ok |-> ok, error |-> err, result |-> res, removed |-> removed,
    repeat |-> (last.op = op /\ last.ok) ]

\* export default ({ configPath }) => { const config = ...; const root = ...; return {...} }
Initialize ==
  /\ plugin = "unloaded"
  /\ LET loaded == loadConfig(file) IN
     IF loaded.ok
     THEN /\ plugin' = "ready"
          /\ config' = loaded.value
          /\ root' = join(LUCKY_ROOT, <<valueOf(loaded.value.root), valueOf(loaded.value.entry)>>)
          /\ last' = Outcome("init", TRUE, "", NoResult, {})
     ELSE /\ plugin' = "failed"
          /\ UNCHANGED <<config, root>>
          /\ last' = Outcome("init", FALSE, loaded.error, NoResult, {})
  /\ UNCHANGED <<file, fs, order, locked, env, returned, edits, helperVars>>

\* the object config() returns when nothing throws
ConfigResult(cfg, rt, server, f, ord, e) ==
  [ root |-> rt,
    alias |-> resolveAliases(Get(cfg, "aliases")),
    server |-> server,
    build |-> [ outDir |-> resolve(LUCKY_ROOT, valueOf(cfg.outDir)),
                sourcemap |-> sourcemap(LUCKY_ENV(e)),
                emptyOutDir |-> FALSE,
                manifest |-> TRUE,
                input |-> findEntryScripts(f, ord, rt),
                entryFileNames |-> entryFileNames,
                chunkFileNames |-> chunkFileNames,
                assetFileNames |-> "determineAssetFilePath" ] ]

\* what the entry directory lists now (<<"ENOENT">> when it cannot be listed)
Listing == IF findEntryScriptsThrows(fs, root) THEN <<"ENOENT">> ELSE readdirSync(fs, order, root)

configHook ==
  /\ plugin = "ready"
  /\ config' = ConfigAfterConfigureServer(config)
  /\ LET server == configureServer(config) IN
     IF ~server.ok
     THEN /\ last' = Outcome("config", FALSE, server.error, NoResult, {})
          /\ UNCHANGED returned
     ELSE IF findEntryScriptsThrows(fs, root)
     THEN /\ last' = Outcome("config", FALSE, "ENOENT", NoResult, {})
          /\ UNCHANGED returned
     ELSE LET res == ConfigResult(config, root, server.value, fs, order, env)
              listing == Listing
          IN /\ last' = Outcome("config", TRUE, "", res, {})
             /\ returned' =
                  IF \E r \in returned : r.listing = listing
                  THEN {IF r.listing = listing THEN [r EXCEPT !.again = TRUE] ELSE r : r \in returned}
                  ELSE returned \cup {[listing |-> listing, result |-> res, again |-> FALSE]}
  /\ UNCHANGED <<file, fs, order, locked, plugin, root, env, edits, helperVars>>

\* a list that also names the output directory itself
dirsToCleanWithOutDir == <<"js", "css", "images", "fonts", ".vite", ".">>

dirsToClean == <<"js", "css", "images", "fonts", ".vite">>

\* rmSync without the existsSync guard and without force: ENOENT on an absent directory
RECURSIVE CleanLoopNoGuard(_, _, _, _)
CleanLoopNoGuard(f, lk, outDir, dirs) ==
  IF dirs = <<>> THEN [ok |-> TRUE, fs |-> f, removed |-> {}]
  ELSE LET fullPath == join(outDir, <<Head(dirs)>>) IN
       IF ~existsSync(f, fullPath) \/ rmSyncThrows(f, lk, fullPath)
       THEN [ok |-> FALSE, fs |-> f, removed |-> {}]
       ELSE LET rest == CleanLoopNoGuard(rmSync(f, fullPath), lk, outDir, Tail(dirs)) IN
            [rest EXCEPT !.removed = @ \cup {fullPath}]

\* for (const dir of dirs) { if (existsSync(fullPath)) rmSync(fullPath, ...) }
RECURSIVE CleanLoop(_, _, _, _)
CleanLoop(f, lk, outDir, dirs) ==
  IF dirs = <<>> THEN [ok |-> TRUE, fs |-> f, removed |-> {}]
  ELSE LET fullPath == join(outDir, <<Head(dirs)>>) IN
       IF existsSync(f, fullPath)
       THEN IF rmSyncThrows(f, lk, fullPath) THEN [ok |-> FALSE, fs |-> f, removed |-> {}]
            ELSE LET rest == CleanLoop(rmSync(f, fullPath), lk, outDir, Tail(dirs)) IN
                 [rest EXCEPT !.removed = @ \cup {fullPath}]
       ELSE CleanLoop(f, lk, outDir, Tail(dirs))

\* const outDir = resolve(LUCKY_ROOT, config.outDir)
OutDir == resolve(LUCKY_ROOT, valueOf(config.outDir))

buildStart ==
  /\ plugin = "ready"
  /\ LET cleaned == CleanLoop(fs, locked, OutDir, dirsToClean) IN
     /\ fs' = cleaned.fs
     /\ last' = Outcome("buildStart", cleaned.ok, IF cleaned.ok THEN "" ELSE "EACCES", NoResult,
                        cleaned.removed)
  /\ UNCHANGED <<file, order, locked, plugin, config, root, env, returned, edits, helperVars>>


FilePaths ==
  { "/app/public/favicon.ico", "/app/public/js/main.1a2b.js", "/app/public/css/main.3c4d.css",
    "/app/public/.vite/manifest.json", "/app/src/js/entry/main.js", "/app/src/js/entry/admin.ts" }

\* build.emptyOutDir (index.ts:30), which the host reads before it writes a bundle
emptyOutDir == FALSE

\* the host's build after a completed buildStart: it writes the bundle below build.outDir
\* (entries and chunks under js/, styles under css/, the manifest under .vite/), after
\* emptying build.outDir when build.emptyOutDir is set
HostBuild ==
  /\ plugin = "ready"
  /\ last.op = "buildStart" /\ last.ok
  /\ LET outDir == OutDir
         written == {q \in Paths : q = outDir \/ (q \in OutputTree /\ IsUnder(outDir, q)
                                                  /\ ~IsUnder("/app/public/images", q)
                                                  /\ ~IsUnder("/app/public/fonts", q))}
         emptied == [q \in Paths |-> IF emptyOutDir /\ IsUnder(outDir, q) /\ q # outDir
                                     THEN "absent" ELSE fs[q]]
     IN fs' = [q \in Paths |-> IF q \in written
                               THEN (IF q \in FilePaths THEN "v2" ELSE "dir")
                               ELSE emptied[q]]
  /\ last' = Outcome("build", TRUE, "", NoResult, {})
  /\ UNCHANGED <<file, order, locked, plugin, config, root, env, returned, edits, helperVars>>

-----------------------------------------------------------------------------
(* The environment: the shared config file and the entry directory change *)

MissingFile == [exists |-> FALSE, wellFormed |-> FALSE, doc |-> EmptyObject]

MalformedFile == [exists |-> TRUE, wellFormed |-> FALSE, doc |-> EmptyObject]

JsonFile(doc) == [exists |-> TRUE, wellFormed |-> TRUE, doc |-> doc]

LifecycleDocs ==
  { EmptyObject,
    [host |-> JBool(TRUE), port |-> JStr("8080"), root |-> JStr("src"),
     entry |-> JStr("./js/entry")],
    [origin |-> JStr("lucky.test"), entry |-> JStr("pages")] }

FileStates == {MissingFile, MalformedFile} \cup {JsonFile(d) : d \in LifecycleDocs}

\* a change made before the factory runs is an initial state
EditConfigFile ==
  /\ plugin = "ready"
  /\ edits < MaxEdits
  /\ \E f \in FileStates : f # file /\ file' = f
  /\ edits' = edits + 1
  /\ last' = Outcome("editConfigFile", TRUE, "", NoResult, {})
  /\ UNCHANGED <<fs, order, locked, plugin, config, root, env, returned, helperVars>>

ChangeEntryDir ==
  /\ edits < MaxEdits
  /\ fs["/app/src/js/entry"] = "dir"
  /\ fs' = [fs EXCEPT !["/app/src/js/entry/admin.ts"] = IF @ = "absent" THEN "v1" ELSE "absent"]
  /\ edits' = edits + 1
  /\ last' = Outcome("changeEntryDir", TRUE, "", NoResult, {})
  /\ UNCHANGED <<file, order, locked, plugin, config, root, env, returned, helperVars>>

-----------------------------------------------------------------------------
(* Specification of the plugin's lifecycle *)

CleanedPaths == {"/app/public/" \o dirsToClean[i] : i \in 1..Len(dirsToClean)}

InitialFs(hasPublic, tree, hasEntryDir, scripts) ==
  [q \in Paths |->
     IF \/ q \in {"/app", "/app/src", "/app/src/js", "/app/src/css"}
        \/ hasPublic /\ q \in {"/app/public", "/app/public/favicon.ico", "/app/public/assets"}
        \/ hasPublic /\ \E d \in tree : IsUnder(d, q)
        \/ hasEntryDir /\ q = "/app/src/js/entry"
        \/ hasEntryDir /\ \E n \in scripts : q = "/app/src/js/entry/" \o n
     THEN (IF q \in FilePaths THEN "v1" ELSE "dir")
     ELSE "absent"]

OtherNames ==
  << "app", "public", "favicon.ico", "assets", "src", "js", "css", "entry", "images", "fonts",
     ".vite", "manifest.json", "main.1a2b.js", "main.3c4d.css" >>

HelperIdle == input = Absent /\ output = Absent /\ pc = "idle"

Unloaded ==
  /\ plugin = "unloaded"
  /\ config = EmptyObject
  /\ root = ""
  /\ last = [ op |-> "none", ok |-> TRUE, error |-> "", result |-> NoResult, removed |-> {},
              repeat |-> FALSE ]
  /\ returned = {}
  /\ edits = 0

\* every config file, entry directory and listing order
Init ==
  /\ file \in FileStates
  /\ \E hasEntryDir \in BOOLEAN, scripts \in {{"main.js"}, {"main.js", "admin.ts"}} :
       fs = InitialFs(TRUE, {"/app/public/js"}, hasEntryDir, IF hasEntryDir THEN scripts ELSE {})
  /\ order \in {<<"main.js", "admin.ts">> \o OtherNames, <<"admin.ts", "main.js">> \o OtherNames}
  /\ locked = {}
  /\ env = JStr("production")
  /\ Unloaded
  /\ HelperIdle

Next ==
  \/ Initialize
  \/ configHook
  \/ buildStart
  \/ EditConfigFile
  \/ ChangeEntryDir

Spec == Init /\ [][Next]_vars

-----------------------------------------------------------------------------
(* Specification of the output directory's cleanup *)

CleanDocs == {EmptyObject, [outDir |-> JStr("src")], [outDir |-> JStr("./public/assets/..")]}

\* every subset of the cleaned directories, with and without an entry rmSync cannot remove
InitClean ==
  /\ file \in {JsonFile(d) : d \in CleanDocs}
  /\ \E hasPublic \in BOOLEAN, tree \in SUBSET CleanedPaths :
       /\ hasPublic \/ tree = {}
       /\ fs = InitialFs(hasPublic, tree, TRUE, {"main.js"})
  /\ order = <<"main.js", "admin.ts">> \o OtherNames
  /\ locked \in {{}, {"/app/public/css/main.3c4d.css"}}
  /\ env = Absent
  /\ Unloaded
  /\ HelperIdle

NextClean ==
  \/ Initialize
  \/ configHook
  \/ buildStart
  \/ HostBuild

SpecClean == InitClean /\ [][NextClean]_vars

-----------------------------------------------------------------------------
(* Specifications of the helpers: Init draws the argument, the action applies the helper *)

LifecycleIdle ==
  /\ file = MissingFile
  /\ fs = InitialFs(FALSE, {}, FALSE, {})
  /\ order = OtherNames
  /\ locked = {}
  /\ env = Absent
  /\ Unloaded

Keys == {"outDir", "entry", "host", "port", "root", "aliases", "https", "origin"}

\* the JSON document with the keys of opts that are not Absent
Document(opts) == [k \in {k \in DOMAIN opts : opts[k] # Absent} |-> opts[k]]

(* loadConfig *)

InitLoad ==
  /\ LifecycleIdle
  /\ \/ input \in {MissingFile, MalformedFile}
     \/ \E outDir \in {Absent, JStr("dist")}, entry \in {Absent, JStr("pages")},
           host \in {Absent, JBool(TRUE), JStr("localhost")}, port \in {Absent, JStr("8080")},
           rootDir \in {Absent, JStr("app")},
           aliases \in {Absent, JArr(<<>>), JArr(<<"js", "lib">>)},
           https \in {Absent, JBool(TRUE)}, origin \in {Absent, JStr("https://lucky.test")} :
         input = JsonFile(Document([outDir |-> outDir, entry |-> entry, host |-> host,
                                    port |-> port, root |-> rootDir, aliases |-> aliases,
                                    https |-> https, origin |-> origin]))
  /\ output = Threw("")
  /\ pc = "call"

CallLoadConfig ==
  /\ pc = "call"
  /\ output' = loadConfig(input)
  /\ pc' = "done"
  /\ UNCHANGED <<input, lifecycleVars>>

SpecLoad == InitLoad /\ [][CallLoadConfig]_vars

(* configureServer, on a config as loadConfig returns it *)

InitServer ==
  /\ LifecycleIdle
  /\ \E host \in {Absent, JStr("localhost"), JStr("lucky.test"), JBool(TRUE), JBool(FALSE)},
        port \in {Absent, JStr("3010"), JNum(80), JNum(443), JStr("8080")},
        https \in {Absent, JBool(TRUE), JBool(FALSE)},
        origin \in {Absent, JStr(""), JStr("http://lucky.test:3010"), JStr("https://Lucky.Test"),
                    JStr("HTTP://localhost:80/"), JStr("lucky.test"), JStr("localhost:3010")} :
       input = ObjectAssign(defaults, Document([host |-> host, port |-> port, https |-> https,
                                                origin |-> origin]))
  /\ output = [ok |-> FALSE, error |-> "", value |-> NoServer]
  /\ pc = "call"

CallConfigureServer ==
  /\ pc = "call"
  /\ output' = configureServer(input)
  /\ pc' = "done"
  /\ UNCHANGED <<input, lifecycleVars>>

SpecServer == InitServer /\ [][CallConfigureServer]_vars

(* the output naming rules the host applies to assets, entries and chunks *)

AssetStems == {"", "logo", "fonts/inter", "app.min"}

AssetSuffixes ==
  { "", ".gif", ".jpg", ".jpeg", ".png", ".webp", ".avif", ".svg", ".css", ".woff", ".woff2",
    ".json", ".SVG", ".jpe", ".jpeeg", ".woff3", ".svgz", ".css.map", ".js", "svg", "css",
    ".ttf", ".svg.gz", ".png.css", ".css.woff" }

AssetNames == {Absent} \cup {JStr(a \o b) : a \in AssetStems, b \in AssetSuffixes}

InitAssets ==
  /\ LifecycleIdle
  /\ input \in [kind : {"asset", "entry", "chunk"}, name : AssetNames]
  /\ output = ""
  /\ pc = "call"

RenderAsset ==
  /\ pc = "call" /\ input.kind = "asset"
  /\ output' = determineAssetFilePath(input)
  /\ pc' = "done"
  /\ UNCHANGED <<input, lifecycleVars>>

RenderEntry ==
  /\ pc = "call" /\ input.kind = "entry"
  /\ output' = entryFileNames
  /\ pc' = "done"
  /\ UNCHANGED <<input, lifecycleVars>>

RenderChunk ==
  /\ pc = "call" /\ input.kind = "chunk"
  /\ output' = chunkFileNames
  /\ pc' = "done"
  /\ UNCHANGED <<input, lifecycleVars>>

NextAssets == RenderAsset \/ RenderEntry \/ RenderChunk

SpecAssets == InitAssets /\ [][NextAssets]_vars

(* LUCKY_ENV, read when the module is loaded, and build.sourcemap *)

EnvValues ==
  {Absent} \cup
  { JStr(a \o b \o c) : a \in {"", "la", "pre-"},
                        b \in {"", "test", "development", "production", "staging", "Test"},
                        c \in {"", "ing", "2"} }

InitEnv ==
  /\ LifecycleIdle
  /\ input \in EnvValues
  /\ output = [LUCKY_ENV |-> "", sourcemap |-> FALSE]
  /\ pc = "call"

LoadModule ==
  /\ pc = "call"
  /\ output' = [output EXCEPT !.LUCKY_ENV = LUCKY_ENV(input)]
  /\ pc' = "loaded"
  /\ UNCHANGED <<input, lifecycleVars>>

ConfigSourcemap ==
  /\ pc = "loaded"
  /\ output' = [output EXCEPT !.sourcemap = sourcemap(output.LUCKY_ENV)]
  /\ pc' = "done"
  /\ UNCHANGED <<input, lifecycleVars>>

NextEnv == LoadModule \/ ConfigSourcemap

SpecEnv == InitEnv /\ [][NextEnv]_vars

-----------------------------------------------------------------------------
(* Properties *)

ValidFile(f) == f.exists /\ f.wellFormed

\* C1: when the config file is missing or is not valid JSON the factory throws: no
\* plugin (no hook) is returned, no config object is kept (the defaults do not stand in
\* for the file), and no hook ever runs; the factory succeeds only on a present, valid
\* file, whose keys the config then holds.
C1_InvalidFileFailsInitialization ==
  /\ (last.op = "init" /\ ~ValidFile(file)) =>
       (~last.ok /\ plugin = "failed" /\ config = EmptyObject /\ config # defaults)
  /\ (last.op = "init" /\ last.ok) =>
       (ValidFile(file) /\ plugin = "ready" /\ \A k \in DOMAIN file.doc : config[k] = file.doc[k])
  /\ plugin # "ready" =>
       (config = EmptyObject /\ returned = {} /\ last.op \notin {"config", "buildStart"})

C1_Witness == last.op = "init" /\ ~file.exists /\ ~last.ok /\ plugin = "failed"

SixKeys == {"outDir", "entry", "host", "port", "root", "aliases"}

ClaimedDefaults ==
  [ outDir |-> JStr("public"), entry |-> JStr("entry"), host |-> JStr("127.0.0.1"),
    port |-> JNum(3010), root |-> JStr("src/js"),
    aliases |-> JArr(<<"js", "css", "images", "fonts">>) ]

CleanedNames == {"js", "css", "images", "fonts", ".vite"}

\* C3: once a buildStart invocation has completed, none of js, css, images, fonts, .vite
\* exists under the output directory, and a buildStart invoked right after it raises no
\* error and leaves the filesystem as it is.
C3_BuildStartIdempotent ==
  /\ []((last.op = "buildStart" /\ last.ok) =>
          \A d \in CleanedNames : ~existsSync(fs, join(OutDir, <<d>>)))
  /\ [][(last.op = "buildStart" /\ last.ok /\ last'.op = "buildStart") =>
          (last'.ok /\ fs' = fs)]_vars

C3_Witness == last.op = "buildStart" /\ last.repeat /\ last.ok /\ last.removed = {}

\* C4: a buildStart invocation, completed or not, leaves every path that is not one of
\* <outDir>/js, css, images, fonts, .vite or below one of them as it was: the output
\* directory itself, its other entries and everything outside it.
C4_BuildStartKeepsTheRest ==
  [][last'.op = "buildStart" =>
       \A q \in Paths :
         (\A d \in CleanedNames : ~IsUnder(join(OutDir, <<d>>), q)) => fs'[q] = fs[q]]_vars

C4_Witness ==
  /\ last.op = "buildStart"
  /\ last.removed # {}
  /\ OutDir = "/app/public"
  /\ fs["/app/public"] = "dir"
  /\ fs["/app/public/favicon.ico"] = "v1"
  /\ fs["/app/public/assets"] = "dir"

OriginSupplied == "origin" \in DOMAIN input

\* what configureServer returns for the same origin with another host and port and no https
FromOriginAlone ==
  configureServer([origin |-> input.origin, host |-> JStr("elsewhere.test"), port |-> JNum(1)])

OriginDecides ==
  /\ output = FromOriginAlone
  /\ output.ok =>
       /\ output.value.origin = valueOf(input.origin)
       /\ output.value.https = StartsWith(ToLowerCase(valueOf(input.origin)), "https:")

\* C5 as stated: whenever an origin is supplied, what configureServer returns depends on
\* the origin alone, and the returned origin is the supplied string.
C5_SuppliedOriginDecides == (pc = "done" /\ OriginSupplied) => OriginDecides

\* C5 as amended: the same for a supplied origin that is not the empty string (an empty
\* origin is falsy, so `origin ||=` synthesizes one from host, port and https).
C5_NonEmptyOriginDecides ==
  (pc = "done" /\ OriginSupplied /\ valueOf(Get(input, "origin")) # "") => OriginDecides

C5_Witness ==
  /\ pc = "done"
  /\ Get(input, "origin") = JStr("https://Lucky.Test")
  /\ input.host = JBool(TRUE) /\ input.port = JNum(80) /\ Get(input, "https") = JBool(FALSE)
  /\ output.ok
  /\ output.value = [origin |-> "https://Lucky.Test", host |-> "lucky.test", port |-> "",
                     https |-> TRUE]

\* C6: with no origin supplied (and a host that is a string or true), configureServer
\* returns origin http(s)://<host>:<port> with https chosen by the https flag and host
\* 0.0.0.0 for true, hostname equal to that host, port equal to the supplied port, and
\* the secure flag equal to the https flag.
C6_SynthesizedOriginRoundTrips ==
  (pc = "done" /\ ~OriginSupplied /\ input.host # JBool(FALSE)) =>
    LET host == IF input.host = JBool(TRUE) THEN "0.0.0.0" ELSE valueOf(input.host)
        port == TemplateString(input.port)
        secure == Get(input, "https") = JBool(TRUE)
    IN /\ output.ok
       /\ output.value.origin = (IF secure THEN "https" ELSE "http") \o "://" \o host \o ":" \o port
       /\ output.value.host = host
       /\ output.value.port = port
       /\ output.value.https = secure

\* position of the last "." of s, 0 if none
RECURSIVE LastDot(_)
LastDot(s) ==
  IF Len(s) = 0 THEN 0 ELSE IF Char(s, Len(s)) = "." THEN Len(s)
  ELSE LastDot(SubSeq(s, 1, Len(s) - 1))

\* the extension of a name: what follows its last ".", "" when it has none
Extension(name) == IF LastDot(name) = 0 THEN "" ELSE SubSeq(name, LastDot(name) + 1, Len(name))

ClaimedPath(in) ==
  LET ext == Extension(IF in.name = Absent THEN "" ELSE valueOf(in.name)) IN
  IF in.kind \in {"entry", "chunk"} THEN "js/[name].[hash].js"
  ELSE IF ext \in {"gif", "jpg", "jpeg", "png", "webp", "avif", "svg"}
       THEN "images/[name].[hash][extname]"
  ELSE IF ext = "css" THEN "css/[name].[hash][extname]"
  ELSE IF ext \in {"woff", "woff2"} THEN "fonts/[name].[hash][extname]"
  ELSE "[name].[hash][extname]"

\* C7: an asset goes to images/, css/ or fonts/ by its extension (first rule that
\* matches), to no sub-directory otherwise, also when it has no name; entries and chunks
\* always go to js/[name].[hash].js.
C7_AssetPathByExtension == pc = "done" => output = ClaimedPath(input)

C7_Witness ==
  /\ pc = "done"
  /\ input = [kind |-> "asset", name |-> JStr("logo.avif")]
  /\ output = "images/[name].[hash][extname]"

\* C8: source maps are on for every LUCKY_ENV except "development" and "test"; an unset
\* or empty LUCKY_ENV counts as "development".
C8_SourcemapExceptDevelopmentAndTest ==
  pc = "done" =>
    LET environment == IF input = Absent \/ input = JStr("") THEN "development"
                       ELSE valueOf(input)
    IN output.sourcemap = (environment \notin {"development", "test"})

\* <process root>/<root>/<entry>
EntryDirectory ==
  AbsolutePath(Split(LUCKY_ROOT \o "/" \o valueOf(config.root) \o "/" \o valueOf(config.entry)))

Children(dir) == {q \in Paths : fs[q] # "absent" /\ q # dir /\ Parent(q) = dir}

ListedAt(name) == CHOOSE i \in 1..Len(order) : order[i] = name

\* C9: when the config hook returns, its entry points are the direct children of
\* <process root>/<root>/<entry>, each once, whatever their extension, in the order the
\* directory lists them; when that directory does not exist the hook throws and returns
\* nothing; the factory succeeds on every valid config file, with or without that
\* directory.
C9_EntryPointsAreTheDirectoryListing ==
  /\ (last.op = "config" /\ last.ok) =>
       LET scripts == last.result.build.input IN
       /\ {scripts[i] : i \in 1..Len(scripts)} = Children(EntryDirectory)
       /\ Len(scripts) = Cardinality(Children(EntryDirectory))
       /\ \A i, j \in 1..Len(scripts) :
            i < j => ListedAt(Basename(scripts[i])) < ListedAt(Basename(scripts[j]))
  /\ (last.op = "config" /\ ~existsSync(fs, EntryDirectory)) =>
       (~last.ok /\ last.result = NoResult /\ plugin = "ready")
  /\ (last.op = "init" /\ ValidFile(file)) => (last.ok /\ plugin = "ready")

C9_Witness ==
  /\ last.op = "config" /\ ~last.ok /\ last.error = "ENOENT"
  /\ ~existsSync(fs, EntryDirectory)
  /\ plugin = "ready"

\* C10: once the plugin exists its config and root never change, a config hook changes
\* neither the filesystem nor the config file, and a config hook returns what the first
\* config hook with the same directory listing returned, whatever the config file holds
\* by then.
C10_ConfigHookIsPure ==
  /\ []((last.op = "config" /\ last.ok) =>
          \A r \in returned : r.listing = Listing => r.result = last.result)
  /\ [][/\ plugin = "ready" => (config' = config /\ root' = root)
        /\ last'.op = "config" => (fs' = fs /\ file' = file)]_vars

C10_Witness ==
  /\ last.op = "config" /\ last.ok
  /\ ~ValidFile(file)
  /\ "origin" \notin DOMAIN config
  /\ \E r \in returned : r.listing = Listing /\ r.again /\ r.result = last.result

=============================================================================
